---- MODULE Spec2Model ----
(***************************************************************************)
(* Model of topmodel/model_data.py: the histogram builder, the histogram   *)
(* cache (histogram.json) and the bootstrap cache (bootstrap.json) of a    *)
(* ModelData handle over a storage collaborator.                           *)
(*                                                                         *)
(* Scores are fixed-point numbers in units of 10^-7 (the finest            *)
(* resolution of TOP_THRESHOLDS), so 1.0 is One and 0.05 is 500000.        *)
(* Weights are naturals, which makes every weighted sum exact.             *)
(***************************************************************************)
EXTENDS Integers, Sequences, FiniteSets, TLC

VARIABLES
    file_system,   \* path -> content; a path outside DOMAIN does not exist
    data_frame,    \* the handle's memoized table (self.data_frame)
    call,          \* the last request made on the handle
    ret,           \* what that request returned
    io_log,        \* the storage calls that request made, in order, and
                   \* last the exception that ended it, if one did
    drawn,         \* the draws that request took from the random source
    procs          \* the processes that use the model path concurrently,
                   \* each with its own handle: process -> its request, the
                   \* storage call it is at and the locals of its methods

vars == <<file_system, data_frame, call, ret, io_log, drawn, procs>>

(***************************************************************************)
(* Bounds of the model.                                                    *)
(***************************************************************************)
MaxRows == 2         \* rows of a stored scores table
MaxWeight == 1       \* largest weight / aggregate count of a row
MaxSamples == 2      \* largest n of a bootstrap request
MaxRequests == 1     \* requests of one process in concurrent use

(***************************************************************************)
(* Program constants.                                                      *)
(***************************************************************************)
One == 10000000
THRESHOLD_BINS == 100
SCORES_FILE == "scores.tsv"
HISTOGRAM_FILE == "histogram.json"
BOOTSTRAP_FILE == "bootstrap.json"
\* The labels and the scores of a benchmarked model; the labels are stored
\* at the parent of the model path.
ACTUALS_FILE == "actuals.tsv"
SCORES_BM_FILE == "scores_bm.tsv"
TOP_THRESHOLDS ==
    <<9000000, 9500000, 9900000, 9950000, 9975000, 9990000, 9995000,
      9999000, 9999500, 9999990, 9999999, 10000000>>

\* Python's None as the result of read_file (no JSON text is empty), and as
\* self.data_frame (no parsed table is without columns).
None == <<>>
NoneFrame == [columns |-> {}, rows |-> <<>>]
\* A missing cell of a parsed table (NaN).
NaN == -1

(***************************************************************************)
(* numpy / list primitives used by the code.                               *)
(***************************************************************************)
\* np.sum of the first n entries of the vector v.
RECURSIVE np_sum(_, _)
np_sum(v, n) == IF n = 0 THEN 0 ELSE np_sum(v, n - 1) + v[n]

np_ones(n) == [k \in 1..n |-> 1]

\* The edges without the "* 1.0": x / THRESHOLD_BINS on integers.
bin_edges_integer_division ==
    [x \in 1..(THRESHOLD_BINS + 1) |-> ((x - 1) \div THRESHOLD_BINS) * One]

\* range(0, THRESHOLD_BINS + 1) mapped through x * 1.0 / THRESHOLD_BINS.
bin_edges == [x \in 1..(THRESHOLD_BINS + 1) |-> ((x - 1) * One) \div THRESHOLD_BINS]

\* top_bins = TOP_THRESHOLDS[:]; top_bins.insert(0, 0.0)
top_bins == <<0>> \o TOP_THRESHOLDS

(***************************************************************************)
(* ModelData.get_thresholds_trues_totals.  bin_list is 0-based in the      *)
(* code, so bin_list[i] there is bin_list[i + 1] here; obs_in_bin(i, k) is *)
(* element k of the boolean vector obs_in_bin of iteration i, and a        *)
(* weight times a boolean is the weight or 0.                              *)
(***************************************************************************)
\* The builder with the upper edge of a bin included.
get_thresholds_trues_totals_closed(range_info, bin_list, predicted, actual, weight) ==
    LET n == Len(predicted)
        obs_in_bin(i, k) ==
            predicted[k] >= bin_list[i + 1] /\ predicted[k] <= bin_list[(i + 1) + 1]
        true_obs_in_bin(i, k) == obs_in_bin(i, k) /\ actual[k]
        trues(i) ==
            np_sum([k \in 1..n |-> IF true_obs_in_bin(i, k) THEN weight[k] ELSE 0], n)
        totals(i) ==
            np_sum([k \in 1..n |-> IF obs_in_bin(i, k) THEN weight[k] ELSE 0], n)
    IN  [thresholds |-> [i \in 1..range_info |-> bin_list[((i - 1) + 1) + 1]],
         trues |-> [i \in 1..range_info |-> trues(i - 1)],
         totals |-> [i \in 1..range_info |-> totals(i - 1)]]

\* The builder with trues not restricted to the bin.
get_thresholds_trues_totals_unmasked(range_info, bin_list, predicted, actual, weight) ==
    LET n == Len(predicted)
        obs_in_bin(i, k) ==
            predicted[k] >= bin_list[i + 1] /\ predicted[k] < bin_list[(i + 1) + 1]
        trues(i) ==
            np_sum([k \in 1..n |-> IF actual[k] THEN weight[k] ELSE 0], n)
        totals(i) ==
            np_sum([k \in 1..n |-> IF obs_in_bin(i, k) THEN weight[k] ELSE 0], n)
    IN  [thresholds |-> [i \in 1..range_info |-> bin_list[((i - 1) + 1) + 1]],
         trues |-> [i \in 1..range_info |-> trues(i - 1)],
         totals |-> [i \in 1..range_info |-> totals(i - 1)]]

get_thresholds_trues_totals(range_info, bin_list, predicted, actual, weight) ==
    LET n == Len(predicted)
        obs_in_bin(i, k) ==
            predicted[k] >= bin_list[i + 1] /\ predicted[k] < bin_list[(i + 1) + 1]
        true_obs_in_bin(i, k) == obs_in_bin(i, k) /\ actual[k]
        trues(i) ==
            np_sum([k \in 1..n |-> IF true_obs_in_bin(i, k) THEN weight[k] ELSE 0], n)
        totals(i) ==
            np_sum([k \in 1..n |-> IF obs_in_bin(i, k) THEN weight[k] ELSE 0], n)
    IN  [thresholds |-> [i \in 1..range_info |-> bin_list[((i - 1) + 1) + 1]],
         trues |-> [i \in 1..range_info |-> trues(i - 1)],
         totals |-> [i \in 1..range_info |-> totals(i - 1)]]

(***************************************************************************)
(* JSON text, as the sequence of its tokens: "{", "}", "[", "]", a key, or *)
(* an array of numbers ("#" with the numbers in v).  json.dumps writes a   *)
(* dict's keys in the order of KeyOrder; an embedded object comes last.    *)
(***************************************************************************)
Tok(k) == [k |-> k, v |-> <<>>]
Array(xs) == [k |-> "#", v |-> xs]

KeyOrder == <<"thresholds", "score_distribution", "trues", "totals">>

RECURSIVE json_dumps_items(_, _)
json_dumps_items(d, keys) ==
    IF keys = <<>> THEN <<>>
    ELSE (IF Head(keys) \in DOMAIN d
          THEN <<Tok(Head(keys)), Array(d[Head(keys)])>>
          ELSE <<>>) \o json_dumps_items(d, Tail(keys))

\* json.dumps of a dict whose values are lists of numbers.
json_dumps_flat(d) == <<Tok("{")>> \o json_dumps_items(d, KeyOrder) \o <<Tok("}")>>

\* json.dumps of a histogram dict, with or without 'high_end_hist'.
json_dumps(d) ==
    <<Tok("{")>> \o json_dumps_items(d, KeyOrder)
    \o (IF "high_end_hist" \in DOMAIN d
        THEN <<Tok("high_end_hist")>> \o json_dumps_flat(d["high_end_hist"])
        ELSE <<>>)
    \o <<Tok("}")>>

RECURSIVE json_dumps_objects(_)
json_dumps_objects(l) ==
    IF l = <<>> THEN <<>> ELSE json_dumps_flat(Head(l)) \o json_dumps_objects(Tail(l))

\* json.dumps of a list of flat dicts (the bootstrap artifact).
json_dumps_list(l) == <<Tok("[")>> \o json_dumps_objects(l) \o <<Tok("]")>>

\* 'key' in text: the substring test of to_histogram_format.
contains(text, key) == \E i \in 1..Len(text) : text[i].k = key

\* Position of the first token k at or after from (0 when there is none).
find(text, k, from) ==
    LET at == {i \in from..Len(text) : text[i].k = k}
    IN  IF at = {} THEN 0 ELSE CHOOSE i \in at : \A j \in at : i <= j

\* The flat object whose "{" is at position at.
json_loads_flat(text, at) ==
    LET close == find(text, "}", at)
        keys == {KeyOrder[i] : i \in 1..Len(KeyOrder)}
        present == {key \in keys : find(text, key, at) \in (at + 1)..(close - 1)}
    IN  [key \in present |-> text[find(text, key, at) + 1].v]

\* json.loads that reads the totals into trues as well.
json_loads_confusing_keys(text) ==
    LET at == find(text, "totals", 1)
    IN  [thresholds |-> text[find(text, "thresholds", 1) + 1].v,
         trues |-> text[at + 1].v,
         totals |-> text[at + 1].v,
         high_end_hist |-> json_loads_flat(text, find(text, "high_end_hist", 1) + 1)]

\* json.loads of a histogram document.
json_loads(text) ==
    LET nested == find(text, "high_end_hist", 1)
        outer == IF nested = 0 THEN text
                 ELSE SubSeq(text, 1, nested - 1) \o <<Tok("}")>>
        top == json_loads_flat(outer, 1)
    IN  IF nested = 0 THEN top
        ELSE [key \in DOMAIN top \cup {"high_end_hist"} |->
                IF key = "high_end_hist" THEN json_loads_flat(text, nested + 1)
                ELSE top[key]]

\* Positions of the "{" tokens of a list document, in order.
RECURSIVE object_starts(_, _)
object_starts(text, from) ==
    LET at == find(text, "{", from)
    IN  IF from > Len(text) \/ at = 0 THEN <<>>
        ELSE <<at>> \o object_starts(text, at + 1)

\* json.loads of a list of flat dicts.
json_loads_list(text) ==
    LET starts == object_starts(text, 1)
    IN  [i \in 1..Len(starts) |-> json_loads_flat(text, starts[i])]

(***************************************************************************)
(* Tables (pandas data frames): the set of column names and the rows, each *)
(* a record over the columns.  A numeric cell may be NaN.                  *)
(***************************************************************************)
Range(f) == {f[i] : i \in DOMAIN f}

\* The rows at the positions in keep, in their order.
SelectRows(rows, keep) ==
    LET F[i \in 0..Len(rows)] ==
            IF i = 0 THEN <<>>
            ELSE IF i \in keep THEN Append(F[i - 1], rows[i]) ELSE F[i - 1]
    IN  F[Len(rows)]

\* DataFrame.dropna(how='any')
dropna(df) ==
    LET complete(row) == \A c \in df.columns \ {"actual"} : row[c] # NaN
        keep == {i \in DOMAIN df.rows : complete(df.rows[i])}
    IN  [columns |-> df.columns, rows |-> SelectRows(df.rows, keep)]

\* The expansion with the negative rows weighted by the trues column.
check_alt_format_copied_weight(orig_df) ==
    IF "trues" \in orig_df.columns
    THEN LET n == Len(orig_df.rows)
             true_df == [i \in 1..n |->
                 [actual |-> TRUE, weight |-> orig_df.rows[i].trues,
                  pred_score |-> orig_df.rows[i].score]]
             false_df == [i \in 1..n |->
                 [actual |-> FALSE, weight |-> orig_df.rows[i].trues,
                  pred_score |-> orig_df.rows[i].score]]
         IN  [columns |-> {"actual", "weight", "pred_score"},
              rows |-> true_df \o false_df]
    ELSE orig_df

\* ModelData.check_alt_format, on the memoized table.
check_alt_format(orig_df) ==
    IF "trues" \in orig_df.columns
    THEN LET n == Len(orig_df.rows)
             true_df == [i \in 1..n |->
                 [actual |-> TRUE, weight |-> orig_df.rows[i].trues,
                  pred_score |-> orig_df.rows[i].score]]
             false_df == [i \in 1..n |->
                 [actual |-> FALSE, weight |-> orig_df.rows[i].falses,
                  pred_score |-> orig_df.rows[i].score]]
         IN  [columns |-> {"actual", "weight", "pred_score"},
              rows |-> true_df \o false_df]
    ELSE orig_df

(***************************************************************************)
(* The methods of ModelData.  A method takes the state it runs in,         *)
(* s = [file_system, data_frame, io_log, rng], and yields the state it     *)
(* leaves with its return value in ret.  rng is the random source: the     *)
(* sequence of draws np.random.randint(0, len(df), len(df)) will return.   *)
(***************************************************************************)
read_file(fs, path) == IF path \in DOMAIN fs THEN fs[path] ELSE None

write_file(fs, path, content) ==
    [p \in DOMAIN fs \cup {path} |-> IF p = path THEN content ELSE fs[p]]

Read(path) == [io |-> "read_file", path |-> path]
Write(path) == [io |-> "write_file", path |-> path]

Result(s, value) ==
    [file_system |-> s.file_system, data_frame |-> s.data_frame,
     io_log |-> s.io_log, rng |-> s.rng, ret |-> value]

State(r) ==
    [file_system |-> r.file_system, data_frame |-> r.data_frame,
     io_log |-> r.io_log, rng |-> r.rng]

\* to_data_frame without the test of the memoized table.
to_data_frame_reloading(s) ==
    LET loaded ==
            [s EXCEPT !.data_frame = dropna(read_file(s.file_system, SCORES_FILE)),
                      !.io_log = Append(@, Read(SCORES_FILE))]
        normalized == [loaded EXCEPT !.data_frame = check_alt_format(@)]
    IN  Result(normalized, normalized.data_frame)

\* ModelData.to_data_frame
to_data_frame(s) ==
    LET loaded ==
            IF s.data_frame = NoneFrame
            THEN [s EXCEPT !.data_frame = dropna(read_file(s.file_system, SCORES_FILE)),
                           !.io_log = Append(@, Read(SCORES_FILE))]
            ELSE s
        normalized == [loaded EXCEPT !.data_frame = check_alt_format(@)]
    IN  Result(normalized, normalized.data_frame)

\* A failed assert: the exception leaves the method with the state as it is
\* at the raise; it is the last entry of the request's trace and the
\* request's only outcome.
AssertionError(message) ==
    [io |-> "raise", exception |-> "AssertionError", message |-> message]

Raise(s, exc) ==
    [file_system |-> s.file_system, data_frame |-> s.data_frame,
     io_log |-> Append(s.io_log, exc), rng |-> s.rng, ret |-> exc]

Raised(r) == r.io_log # <<>> /\ r.io_log[Len(r.io_log)].io = "raise"

\* df.duplicated('id').sum(): the rows whose id an earlier row has.
duplicated_sum(rows) ==
    Cardinality({k \in DOMAIN rows : \E j \in 1..(k - 1) : rows[j].id = rows[k].id})

\* sorted(df.index): the ids of the rows in ascending order.
RECURSIVE sorted(_)
sorted(ids) ==
    IF ids = <<>> THEN <<>>
    ELSE LET rest == sorted(Tail(ids))
             k == Cardinality({i \in DOMAIN rest : rest[i] < Head(ids)})
         IN  SubSeq(rest, 1, k) \o <<Head(ids)>> \o SubSeq(rest, k + 1, Len(rest))

index(df) == [k \in DOMAIN df.rows |-> df.rows[k].id]

\* The load without the assert on duplicated ids.
indexed_data_frame_unchecked(s, path) ==
    Result([s EXCEPT !.io_log = Append(@, Read(path))],
           [columns |-> read_file(s.file_system, path).columns \ {"id"},
            rows |-> read_file(s.file_system, path).rows])

\* BenchmarkedModelData.indexed_data_frame: the table at path, indexed by
\* its id column (the rows keep their id as their index label).
indexed_data_frame(s, path) ==
    IF duplicated_sum(read_file(s.file_system, path).rows) # 0
    THEN Raise([s EXCEPT !.io_log = Append(@, Read(path))],
               AssertionError("id column is not unique"))
    ELSE Result([s EXCEPT !.io_log = Append(@, Read(path))],
                [columns |-> read_file(s.file_system, path).columns \ {"id"},
                 rows |-> read_file(s.file_system, path).rows])

\* pd.merge(left, right, left_index=True, right_index=True): the inner
\* join on the index, in the order of the left rows.
merge(left, right) ==
    LET matches(l) ==
            SelectRows(right.rows, {j \in DOMAIN right.rows : right.rows[j].id = l.id})
        joined(l) == [j \in 1..Len(matches(l)) |-> l @@ matches(l)[j]]
        F[i \in 0..Len(left.rows)] ==
            IF i = 0 THEN <<>> ELSE F[i - 1] \o joined(left.rows[i])
    IN  [columns |-> left.columns \cup right.columns, rows |-> F[Len(left.rows)]]

\* The comparison that accepts scores for a part of the labelled ids.
indices_match_subset(df_actuals, df_scores) ==
    \A k \in DOMAIN df_scores.rows :
        \E j \in DOMAIN df_actuals.rows : df_actuals.rows[j].id = df_scores.rows[k].id

\* sorted(df_actuals.index) == sorted(df_scores.index)
indices_match(df_actuals, df_scores) ==
    sorted(index(df_actuals)) = sorted(index(df_scores))

\* The merge assigned to the handle before the indices are compared.
merge_indexed_assigning_first(df_actuals, b) ==
    IF Raised(b) THEN b
    ELSE IF ~indices_match(df_actuals, b.ret)
    THEN Raise([State(b) EXCEPT !.data_frame = dropna(merge(df_actuals, b.ret))],
               AssertionError("Indices for actuals and scores do not match"))
    ELSE Result([State(b) EXCEPT !.data_frame = dropna(merge(df_actuals, b.ret))],
                None)

\* BenchmarkedModelData.to_data_frame, from the two indexed tables on: the
\* assert on the indices, the merge and dropna.  b is the outcome of
\* loading the scores.
merge_indexed(df_actuals, b) ==
    IF Raised(b) THEN b
    ELSE IF ~indices_match(df_actuals, b.ret)
    THEN Raise(State(b), AssertionError("Indices for actuals and scores do not match"))
    ELSE Result([State(b) EXCEPT !.data_frame = dropna(merge(df_actuals, b.ret))],
                None)

\* BenchmarkedModelData.to_data_frame, from the indexed labels on.  a is
\* the outcome of loading the labels.
load_scores(a) ==
    IF Raised(a) THEN a
    ELSE merge_indexed(a.ret, indexed_data_frame(State(a), SCORES_BM_FILE))

\* to_data_frame, its end: self.check_alt_format(); return self.data_frame.
return_data_frame(r) ==
    IF Raised(r) THEN r
    ELSE Result([State(r) EXCEPT !.data_frame = check_alt_format(@)],
                check_alt_format(r.data_frame))

\* BenchmarkedModelData.to_data_frame
benchmarked_to_data_frame(s) ==
    IF s.data_frame = NoneFrame
    THEN return_data_frame(load_scores(indexed_data_frame(s, ACTUALS_FILE)))
    ELSE return_data_frame(Result(s, None))

\* self.to_data_frame(): the registry constructs a BenchmarkedModelData for
\* a model path that holds scores_bm.tsv and a ModelData otherwise.
self_to_data_frame(s) ==
    IF SCORES_BM_FILE \in DOMAIN s.file_system
    THEN benchmarked_to_data_frame(s)
    ELSE to_data_frame(s)

\* ModelData.metrics_from_hist.  The entries computed by the external
\* hmetrics library (precisions, recalls, fprs, marginal_precisions,
\* logloss) are functions of hist alone and are not represented.
metrics_from_hist(hist) ==
    [thresholds |-> hist.thresholds,
     score_distribution |-> hist.totals,
     trues |-> hist.trues]

\* The test without "or resample".
must_build_histogram_ignoring_resample(histogram_json, resample) ==
    histogram_json = None \/ ~contains(histogram_json, "high_end_hist")

\* The test without the check for the tail field.
must_build_histogram_ignoring_tail(histogram_json, resample) ==
    histogram_json = None \/ resample

\* The test that never trusts the stored artifact.
must_build_histogram_always(histogram_json, resample) == TRUE

\* The condition of to_histogram_format under which it builds the
\* histogram rather than return the stored one.
must_build_histogram(histogram_json, resample) ==
    histogram_json = None \/ resample \/ ~contains(histogram_json, "high_end_hist")

\* to_histogram_format, the write of the histogram that is not a
\* resample, and its return.
write_histogram(s1, hist) ==
    [file_system |-> write_file(s1.file_system, HISTOGRAM_FILE, json_dumps(hist)),
     data_frame |-> s1.data_frame,
     io_log |-> Append(s1.io_log, Write(HISTOGRAM_FILE)),
     rng |-> s1.rng,
     ret |-> hist]

\* to_histogram_format, from the columns on: the uniform histogram, and
\* for a request that is not a resample the tail histogram and the write.
\* A resample consumes one draw of the random source.
histogram_of_columns(s1, resample, predicted, actual, weight) ==
    LET hist == get_thresholds_trues_totals(
                    THRESHOLD_BINS, bin_edges, predicted, actual, weight)
    IN  IF ~resample
        THEN write_histogram(s1,
                 [thresholds |-> hist.thresholds,
                  trues |-> hist.trues,
                  totals |-> hist.totals,
                  high_end_hist |-> get_thresholds_trues_totals(
                      Len(TOP_THRESHOLDS), top_bins, predicted, actual, weight)])
        ELSE [file_system |-> s1.file_system,
              data_frame |-> s1.data_frame,
              io_log |-> s1.io_log,
              rng |-> Tail(s1.rng),
              ret |-> hist]

\* to_histogram_format, from the rows on: the three columns, the weight
\* defaulting to np.ones(len(df)).
histogram_of_rows(s1, resample, rows) ==
    histogram_of_columns(s1, resample,
        [k \in 1..Len(rows) |-> rows[k].pred_score],
        [k \in 1..Len(rows) |-> rows[k].actual],
        IF "weight" \notin s1.ret.columns
        THEN np_ones(Len(rows))
        ELSE [k \in 1..Len(rows) |-> rows[k].weight])

\* The resample assigned to the handle's table instead of a local one.
histogram_of_data_frame_in_place(s1, resample) ==
    histogram_of_rows(
        IF resample
        THEN [s1 EXCEPT !.data_frame.rows =
                 [k \in 1..Len(s1.ret.rows) |-> s1.ret.rows[Head(s1.rng)[k] + 1]]]
        ELSE s1,
        resample,
        IF resample
        THEN [k \in 1..Len(s1.ret.rows) |-> s1.ret.rows[Head(s1.rng)[k] + 1]]
        ELSE s1.ret.rows)

\* to_histogram_format, from the loaded table on: the rows, resampled
\* with replacement by df.iloc[np.random.randint(0, len(df), len(df))].
histogram_of_data_frame(s1, resample) ==
    IF Raised(s1) THEN s1
    ELSE histogram_of_rows(s1, resample,
             IF resample
             THEN [k \in 1..Len(s1.ret.rows) |-> s1.ret.rows[Head(s1.rng)[k] + 1]]
             ELSE s1.ret.rows)

\* ModelData.to_histogram_format
to_histogram_format(s, resample) ==
    IF must_build_histogram(read_file(s.file_system, HISTOGRAM_FILE), resample)
    THEN histogram_of_data_frame(
             self_to_data_frame([s EXCEPT !.io_log = Append(@, Read(HISTOGRAM_FILE))]),
             resample)
    ELSE Result([s EXCEPT !.io_log = Append(@, Read(HISTOGRAM_FILE))],
                json_loads(read_file(s.file_system, HISTOGRAM_FILE)))

\* The loop of to_bootstrap_format: for _ in xrange(n_bootstrap_samples).
RECURSIVE bootstrap_loop(_, _, _)
bootstrap_loop(s, remaining, bootstrap) ==
    IF remaining = 0
    THEN Result(s, bootstrap)
    ELSE LET resampled_hist == to_histogram_format(s, TRUE)
         IN  IF Raised(resampled_hist) THEN resampled_hist
             ELSE bootstrap_loop(State(resampled_hist), remaining - 1,
                      Append(bootstrap, metrics_from_hist(resampled_hist.ret)))

\* The test without the comparison of the stored count.
must_resample_only_if_absent(bootstrap_json, n_bootstrap_samples) ==
    bootstrap_json = None

\* The test that resamples only when the stored snapshots are too few.
must_resample_if_fewer(bootstrap_json, n_bootstrap_samples) ==
    bootstrap_json = None
    \/ Len(json_loads_list(bootstrap_json)) < n_bootstrap_samples

\* The condition of to_bootstrap_format under which it resamples rather
\* than return the stored snapshots.
must_resample(bootstrap_json, n_bootstrap_samples) ==
    bootstrap_json = None
    \/ Len(json_loads_list(bootstrap_json)) # n_bootstrap_samples

\* to_bootstrap_format, the write of the snapshots and their return.
write_bootstrap(r) ==
    IF Raised(r) THEN r
    ELSE [file_system |->
              write_file(r.file_system, BOOTSTRAP_FILE, json_dumps_list(r.ret)),
          data_frame |-> r.data_frame,
          io_log |-> Append(r.io_log, Write(BOOTSTRAP_FILE)),
          rng |-> r.rng,
          ret |-> r.ret]

\* ModelData.to_bootstrap_format
to_bootstrap_format(s, n_bootstrap_samples) ==
    IF must_resample(read_file(s.file_system, BOOTSTRAP_FILE), n_bootstrap_samples)
    THEN write_bootstrap(
             bootstrap_loop([s EXCEPT !.io_log = Append(@, Read(BOOTSTRAP_FILE))],
                            n_bootstrap_samples, <<>>))
    ELSE Result([s EXCEPT !.io_log = Append(@, Read(BOOTSTRAP_FILE))],
                json_loads_list(read_file(s.file_system, BOOTSTRAP_FILE)))

\* get_metrics, the return of [base] + bootstrapped.
with_base(base, bootstrapped) ==
    IF Raised(bootstrapped) THEN bootstrapped
    ELSE Result(bootstrapped, <<base>> \o bootstrapped.ret)

\* get_metrics without the test for n = 0.
get_metrics_always_bootstrapping(s, n_bootstrap_samples) ==
    LET hist == to_histogram_format(s, FALSE)
    IN  IF n_bootstrap_samples = 0
        THEN Result(to_bootstrap_format(State(hist), n_bootstrap_samples),
                    metrics_from_hist(hist.ret))
        ELSE with_base(metrics_from_hist(hist.ret),
                       to_bootstrap_format(State(hist), n_bootstrap_samples))

\* ModelData.get_metrics
get_metrics(s, n_bootstrap_samples) ==
    LET hist == to_histogram_format(s, FALSE)
    IN  IF Raised(hist) THEN hist
        ELSE IF n_bootstrap_samples = 0
        THEN Result(hist, metrics_from_hist(hist.ret))
        ELSE with_base(metrics_from_hist(hist.ret),
                       to_bootstrap_format(State(hist), n_bootstrap_samples))

\* get_top_metrics assembled from the uniform histogram.
get_top_metrics_uniform(s) ==
    LET hist == to_histogram_format(s, FALSE)
    IN  Result(hist, metrics_from_hist(hist.ret))

\* ModelData.get_top_metrics
get_top_metrics(s) ==
    LET hist == to_histogram_format(s, FALSE)
    IN  IF Raised(hist) THEN hist
        ELSE Result(hist, metrics_from_hist(hist.ret["high_end_hist"]))

\* ModelData.save_data_frame
save_data_frame(s, df) ==
    [file_system |-> write_file(s.file_system, SCORES_FILE, df),
     data_frame |-> df,
     io_log |-> Append(s.io_log, Write(SCORES_FILE)),
     rng |-> s.rng,
     ret |-> None]

(***************************************************************************)
(* The stored tables the model draws from.                                 *)
(***************************************************************************)
StdColumns == {"pred_score", "actual", "weight"}

TablesOver(rowset, maxrows) ==
    {[columns |-> StdColumns, rows |-> r] :
        r \in UNION {[1..n -> rowset] : n \in 1..maxrows}}

\* Rows of the cache model: a positive inside a bin of both edge sequences
\* and a negative on an edge of both.
CacheRows ==
    {[pred_score |-> 500000, actual |-> TRUE, weight |-> 1],
     [pred_score |-> 9000000, actual |-> FALSE, weight |-> 1]}

\* A table with a row that lacks its weight, one without a weight column,
\* and one in the aggregate format "score, trues, falses".
IncompleteTable ==
    [columns |-> StdColumns,
     rows |-> <<[pred_score |-> 500000, actual |-> TRUE, weight |-> NaN],
                [pred_score |-> One, actual |-> TRUE, weight |-> 2]>>]
UnweightedTable ==
    [columns |-> {"pred_score", "actual"},
     rows |-> <<[pred_score |-> 9500000, actual |-> FALSE]>>]
AggregateTable ==
    [columns |-> {"score", "trues", "falses"},
     rows |-> <<[score |-> 5000000, trues |-> 3, falses |-> 7]>>]

CacheTables ==
    TablesOver(CacheRows, MaxRows)
    \cup {IncompleteTable, UnweightedTable, AggregateTable}

\* Scores of the builder model: the first edge, an interior edge of the
\* uniform sequence, an interior edge of both sequences, the maximum score.
BuildScores == {0, 500000, 9000000, One}
BuildRows ==
    {[pred_score |-> p, actual |-> a, weight |-> w] :
        p \in BuildScores, a \in BOOLEAN, w \in 0..MaxWeight}

\* The four observations of the end-to-end scenario.
EndToEndTable ==
    [columns |-> StdColumns,
     rows |-> <<[pred_score |-> 500000, actual |-> TRUE, weight |-> 1],
                [pred_score |-> 500000, actual |-> FALSE, weight |-> 1],
                [pred_score |-> 9500000, actual |-> TRUE, weight |-> 1],
                [pred_score |-> 9500000, actual |-> FALSE, weight |-> 1]>>]

BuildTables == TablesOver(BuildRows, MaxRows) \cup {EndToEndTable}

Fresh(fs) == [file_system |-> fs, data_frame |-> NoneFrame, io_log |-> <<>>, rng |-> <<>>]

\* A histogram artifact written before the tail histogram existed.
LegacyHistogram(table) ==
    LET hist == to_histogram_format(Fresh(SCORES_FILE :> table), FALSE).ret
    IN  json_dumps([thresholds |-> hist.thresholds, trues |-> hist.trues,
                    totals |-> hist.totals])

(***************************************************************************)
(* The requests on one handle.                                             *)
(***************************************************************************)
Handle(rng) ==
    [file_system |-> file_system, data_frame |-> data_frame,
     io_log |-> <<>>, rng |-> rng]

Call(op, resample, n) == [op |-> op, resample |-> resample, n |-> n]

Returns(r, c, rng) ==
    /\ file_system' = r.file_system
    /\ data_frame' = r.data_frame
    /\ io_log' = r.io_log
    /\ ret' = r.ret
    /\ call' = c
    /\ drawn' = SubSeq(rng, 1, Len(rng) - Len(r.rng))
    /\ procs' = procs

\* The draws np.random.randint(0, len(df), len(df)) can return, for the
\* table the handle holds once loaded.
Draws == LET loaded == self_to_data_frame(Handle(<<>>))
             len == IF Raised(loaded) THEN 0 ELSE Len(loaded.ret.rows)
         IN  [1..len -> 0..(len - 1)]

HistogramRequest ==
    Returns(to_histogram_format(Handle(<<>>), FALSE),
            Call("to_histogram_format", FALSE, 0), <<>>)

ResampleRequest ==
    \E rng \in [1..1 -> Draws] :
        Returns(to_histogram_format(Handle(rng), TRUE),
                Call("to_histogram_format", TRUE, 0), rng)

BootstrapRequest ==
    \E n \in 0..MaxSamples : \E rng \in [1..n -> Draws] :
        Returns(to_bootstrap_format(Handle(rng), n),
                Call("to_bootstrap_format", FALSE, n), rng)

MetricsRequest ==
    \E n \in 0..MaxSamples : \E rng \in [1..n -> Draws] :
        Returns(get_metrics(Handle(rng), n), Call("get_metrics", FALSE, n), rng)

TopMetricsRequest ==
    Returns(get_top_metrics(Handle(<<>>)), Call("get_top_metrics", FALSE, 0), <<>>)

\* ModelData.__init__: a new handle on the same model path.
NewHandle ==
    Returns([file_system |-> file_system, data_frame |-> NoneFrame,
             io_log |-> <<>>, rng |-> <<>>, ret |-> None],
            Call("__init__", FALSE, 0), <<>>)

InitHandle ==
    /\ data_frame = NoneFrame
    /\ call = Call("__init__", FALSE, 0)
    /\ ret = None
    /\ io_log = <<>>
    /\ drawn = <<>>
    /\ procs = <<>>

Init ==
    /\ \E table \in CacheTables :
          file_system \in {(SCORES_FILE :> table),
                           (SCORES_FILE :> table) @@
                               (HISTOGRAM_FILE :> LegacyHistogram(table))}
    /\ InitHandle

Next ==
    \/ HistogramRequest
    \/ ResampleRequest
    \/ BootstrapRequest
    \/ MetricsRequest
    \/ TopMetricsRequest
    \/ NewHandle

Spec == Init /\ [][Next]_vars

\* The builder on its own: every stored table, built and read back.
InitBuild ==
    /\ \E table \in BuildTables : file_system = (SCORES_FILE :> table)
    /\ InitHandle

NextBuild ==
    \/ HistogramRequest
    \/ NewHandle

SpecBuild == InitBuild /\ [][NextBuild]_vars

\* The loaders: benchmarked models, whose labels and scores are stored
\* apart, for every labels table over two ids and every scores table over
\* three ids of up to MaxRows rows (in any order, with repeated, missing
\* and extra ids) and a scores table with a row that lacks its score; and
\* a single-file model in the aggregate format.
LabelRows ==
    {[id |-> 1, actual |-> TRUE], [id |-> 2, actual |-> FALSE]}
ScoreRows ==
    {[id |-> 1, pred_score |-> 8000000], [id |-> 2, pred_score |-> 2000000],
     [id |-> 3, pred_score |-> 2000000]}
IncompleteScoreTable ==
    [columns |-> {"id", "pred_score"},
     rows |-> <<[id |-> 1, pred_score |-> 8000000], [id |-> 2, pred_score |-> NaN]>>]
LabelTables ==
    {[columns |-> {"id", "actual"}, rows |-> r] :
        r \in UNION {[1..n -> LabelRows] : n \in 1..MaxRows}}
ScoreTables ==
    {[columns |-> {"id", "pred_score"}, rows |-> r] :
        r \in UNION {[1..n -> ScoreRows] : n \in 1..MaxRows}}
    \cup {IncompleteScoreTable}

InitLoad ==
    /\ \/ \E labels \in LabelTables, scores \in ScoreTables :
             file_system = (ACTUALS_FILE :> labels) @@ (SCORES_BM_FILE :> scores)
       \/ file_system = (SCORES_FILE :> AggregateTable)
    /\ InitHandle

\* A direct call of to_data_frame on the handle.
LoadRequest ==
    Returns(self_to_data_frame(Handle(<<>>)), Call("to_data_frame", FALSE, 0), <<>>)

NextLoad ==
    \/ Next
    \/ LoadRequest

SpecLoad == InitLoad /\ [][NextLoad]_vars

\* Replacement of the dataset: save_data_frame(df) between histogram
\* requests, for every complete table df of the cache model.
SaveTables == TablesOver(CacheRows, MaxRows)

SaveDataFrameRequest ==
    \E df \in SaveTables :
        Returns(save_data_frame(Handle(<<>>), df),
                Call("save_data_frame", FALSE, 0), <<>>)

InitSave ==
    /\ \E table \in SaveTables : file_system = (SCORES_FILE :> table)
    /\ InitHandle

NextSave ==
    \/ HistogramRequest
    \/ SaveDataFrameRequest
    \/ NewHandle

SpecSave == InitSave /\ [][NextSave]_vars

\* The builder on stored tables in the aggregate format "score, trues,
\* falses": every table of up to MaxRows rows, the row {0.5, 3, 7}, and a
\* table with a row that lacks its falses.
AggregateColumns == {"score", "trues", "falses"}
AggregateScores == {500000, One}
AggregateRows ==
    {[score |-> p, trues |-> t, falses |-> f] :
        p \in AggregateScores, t \in 0..MaxWeight, f \in 0..MaxWeight}
IncompleteAggregateTable ==
    [columns |-> AggregateColumns,
     rows |-> <<[score |-> 500000, trues |-> 1, falses |-> NaN],
                [score |-> 9000000, trues |-> 2, falses |-> 1]>>]
AggregateTables ==
    {[columns |-> AggregateColumns, rows |-> r] :
        r \in UNION {[1..n -> AggregateRows] : n \in 1..MaxRows}}
    \cup {AggregateTable, IncompleteAggregateTable}

InitAggregate ==
    /\ \E table \in AggregateTables : file_system = (SCORES_FILE :> table)
    /\ InitHandle

NextAggregate ==
    \/ HistogramRequest
    \/ NewHandle

SpecAggregate == InitAggregate /\ [][NextAggregate]_vars

(***************************************************************************)
(* Two processes on the same model path.  Each process has its own handle  *)
(* that has loaded the table or not, and makes up to MaxRequests requests  *)
(* one after the other, non-resampling histogram requests and bootstrap    *)
(* requests; a step of a process is one storage                            *)
(* call, which is atomic, together with the computation that follows it    *)
(* up to the next storage call or the return.  at names the storage call   *)
(* the process makes next, "done" when its request has returned, and      *)
(* requests counts the requests it has made.                               *)
(***************************************************************************)
Procs == 1..2

\* The table both processes read.
RaceTable ==
    [columns |-> StdColumns,
     rows |-> <<[pred_score |-> 500000, actual |-> TRUE, weight |-> 1],
                [pred_score |-> 9500000, actual |-> FALSE, weight |-> 1]>>]

RaceRequests ==
    {Call("to_histogram_format", FALSE, 0)}
    \cup {Call("to_bootstrap_format", FALSE, n) : n \in 0..MaxSamples}

\* The first storage call of a request: lines 171 and 109.
FirstCall(c) ==
    IF c.op = "to_histogram_format" THEN "read_histogram" ELSE "read_bootstrap"

\* A process with a new handle: ModelData.__init__.
Constructed ==
    [call |-> Call("__init__", FALSE, 0), at |-> "done", data_frame |-> NoneFrame,
     bootstrap |-> <<>>, ret |-> None, io_log |-> <<>>, requests |-> 0]

\* The handle of process p as its methods see it, with the storage as it
\* is now.
Local(p, rng) ==
    [file_system |-> file_system, data_frame |-> procs[p].data_frame,
     io_log |-> procs[p].io_log, rng |-> rng]

\* The process is inside the loop of to_bootstrap_format.
Resampling(p) == procs[p].call.op = "to_bootstrap_format"

\* Process p moves on: its locals change, the storage becomes fs.
Step(p, fs, local) ==
    /\ file_system' = fs
    /\ procs' = [procs EXCEPT ![p] = local]
    /\ UNCHANGED <<data_frame, call, ret, io_log, drawn>>

\* The body of the loop of to_bootstrap_format after to_histogram_format
\* has returned r: the append, and the next iteration or the write.
Appended(p, r) ==
    LET bootstrap == Append(procs[p].bootstrap, metrics_from_hist(r.ret))
    IN  [procs[p] EXCEPT
            !.data_frame = r.data_frame,
            !.io_log = r.io_log,
            !.bootstrap = bootstrap,
            !.at = IF Len(bootstrap) = procs[p].call.n
                   THEN "write_bootstrap" ELSE "read_histogram"]

\* A process whose handle has loaded the table by an earlier use.
Loaded == [Constructed EXCEPT !.data_frame = check_alt_format(dropna(RaceTable))]

\* Process p makes its next request on its handle.
Request(p) ==
    /\ procs[p].at = "done"
    /\ procs[p].requests < MaxRequests
    /\ \E c \in RaceRequests :
          Step(p, file_system,
               [procs[p] EXCEPT !.call = c, !.at = FirstCall(c), !.bootstrap = <<>>,
                                !.ret = None, !.io_log = <<>>, !.requests = @ + 1])

\* to_histogram_format, line 171: the read of histogram.json and the test
\* of line 174 on what was read.  The stored histogram is returned; a
\* build goes on to the read of the scores, or with a loaded table to the
\* resample or to the write.
ReadHistogram(p) ==
    /\ procs[p].at = "read_histogram"
    /\ LET histogram_json == read_file(file_system, HISTOGRAM_FILE)
           read == [procs[p] EXCEPT !.io_log = Append(@, Read(HISTOGRAM_FILE))]
       IN  IF ~must_build_histogram(histogram_json, Resampling(p))
           THEN Step(p, file_system,
                     [read EXCEPT !.ret = json_loads(histogram_json), !.at = "done"])
           ELSE IF procs[p].data_frame = NoneFrame
           THEN Step(p, file_system, [read EXCEPT !.at = "read_scores"])
           ELSE IF ~Resampling(p)
           THEN Step(p, file_system, [read EXCEPT !.at = "write_histogram"])
           ELSE \E draw \in [1..Len(procs[p].data_frame.rows) ->
                                0..(Len(procs[p].data_frame.rows) - 1)] :
                    Step(p, file_system,
                         Appended(p, to_histogram_format(Local(p, <<draw>>), TRUE)))

\* to_data_frame, line 148: the read of the scores, and for a resample the
\* rest of to_histogram_format.
ReadScores(p) ==
    /\ procs[p].at = "read_scores"
    /\ LET loaded == self_to_data_frame(Local(p, <<>>))
       IN  IF ~Resampling(p)
           THEN Step(p, file_system,
                     [procs[p] EXCEPT !.data_frame = loaded.data_frame,
                                      !.io_log = loaded.io_log,
                                      !.at = "write_histogram"])
           ELSE \E draw \in [1..Len(loaded.ret.rows) -> 0..(Len(loaded.ret.rows) - 1)] :
                    Step(p, file_system,
                         Appended(p, histogram_of_data_frame(
                                         self_to_data_frame(Local(p, <<draw>>)), TRUE)))

\* to_histogram_format, line 199: the write of the histogram built from the
\* table the handle holds, and the return.
WriteHistogram(p) ==
    /\ procs[p].at = "write_histogram"
    /\ LET built == histogram_of_data_frame(self_to_data_frame(Local(p, <<>>)), FALSE)
       IN  Step(p, built.file_system,
                [procs[p] EXCEPT !.io_log = built.io_log, !.ret = built.ret,
                                 !.at = "done"])

\* to_bootstrap_format, line 109: the read of bootstrap.json and the test
\* of line 111 on what was read.
ReadBootstrap(p) ==
    /\ procs[p].at = "read_bootstrap"
    /\ LET bootstrap_json == read_file(file_system, BOOTSTRAP_FILE)
           read == [procs[p] EXCEPT !.io_log = Append(@, Read(BOOTSTRAP_FILE))]
       IN  IF must_resample(bootstrap_json, procs[p].call.n)
           THEN Step(p, file_system,
                     [read EXCEPT !.at = IF procs[p].call.n = 0
                                         THEN "write_bootstrap" ELSE "read_histogram"])
           ELSE Step(p, file_system,
                     [read EXCEPT !.bootstrap = json_loads_list(bootstrap_json),
                                  !.ret = json_loads_list(bootstrap_json),
                                  !.at = "done"])

\* to_bootstrap_format, line 117: the write of the snapshots, and the
\* return.
WriteBootstrap(p) ==
    /\ procs[p].at = "write_bootstrap"
    /\ LET written == write_bootstrap(Result(Local(p, <<>>), procs[p].bootstrap))
       IN  Step(p, written.file_system,
                [procs[p] EXCEPT !.io_log = written.io_log, !.ret = written.ret,
                                 !.at = "done"])

InitRace ==
    /\ file_system \in {(SCORES_FILE :> RaceTable),
                        (SCORES_FILE :> RaceTable) @@
                            (HISTOGRAM_FILE :> LegacyHistogram(RaceTable))}
    /\ procs \in [Procs -> {Constructed, Loaded}]
    /\ data_frame = NoneFrame
    /\ call = Call("__init__", FALSE, 0)
    /\ ret = None
    /\ io_log = <<>>
    /\ drawn = <<>>

NextRace ==
    \E p \in Procs :
        \/ Request(p)
        \/ ReadHistogram(p)
        \/ ReadScores(p)
        \/ WriteHistogram(p)
        \/ ReadBootstrap(p)
        \/ WriteBootstrap(p)

SpecRace == InitRace /\ [][NextRace]_vars

(***************************************************************************)
(* Vocabulary of the properties: observations, bins and weighted counts,   *)
(* stated over sets of observations rather than as the code computes them. *)
(***************************************************************************)
\* The sum of f over the set S of its arguments.
RECURSIVE SetSum(_, _)
SetSum(f, S) ==
    IF S = {} THEN 0
    ELSE LET pick == CHOOSE x \in S : TRUE
         IN  f[pick] + SetSum(f, S \ {pick})

Total(seq) == SetSum(seq, DOMAIN seq)

\* The observations of a loaded table; weight defaults to 1.
Observations(df) ==
    [k \in 1..Len(df.rows) |->
        [score |-> df.rows[k].pred_score,
         actual |-> df.rows[k].actual,
         weight |-> IF "weight" \in df.columns THEN df.rows[k].weight ELSE 1]]

\* Bin i of an edge sequence is the half-open interval [edges[i], edges[i+1]).
Bins(edges) == 1..(Len(edges) - 1)
InBin(edges, i, score) == edges[i] <= score /\ score < edges[i + 1]

WeightOf(obs, K) == SetSum([k \in DOMAIN obs |-> obs[k].weight], K)
AllOf(obs) == DOMAIN obs
PositivesOf(obs) == {k \in DOMAIN obs : obs[k].actual}
MembersOf(obs, edges, i) == {k \in DOMAIN obs : InBin(edges, i, obs[k].score)}

IsHistogramOf(h, obs, edges) ==
    /\ DOMAIN h.thresholds = Bins(edges)
    /\ DOMAIN h.trues = Bins(edges)
    /\ DOMAIN h.totals = Bins(edges)
    /\ \A i \in Bins(edges) :
        /\ h.thresholds[i] = edges[i + 1]
        /\ h.totals[i] = WeightOf(obs, MembersOf(obs, edges, i))
        /\ h.trues[i] = WeightOf(obs, MembersOf(obs, edges, i) \cap PositivesOf(obs))

UniformEdges == [i \in 1..101 |-> (i - 1) * (One \div 100)]
TailEdges ==
    <<0, 9000000, 9500000, 9900000, 9950000, 9975000, 9990000, 9995000,
      9999000, 9999500, 9999990, 9999999, One>>

\* The last request was a non-resampling histogram request / one that built
\* the histogram from the dataset / one answered from the stored artifact.
HistogramReturned == call.op = "to_histogram_format" /\ ~call.resample
HistogramBuilt == HistogramReturned /\ Write(HISTOGRAM_FILE) \in Range(io_log)
HistogramReadBack == HistogramReturned /\ io_log = <<Read(HISTOGRAM_FILE)>>

(***************************************************************************)
(* C1.  A built histogram conserves weight: over both edge sequences, the  *)
(* totals sum to the weight of all observations of the dataset and the     *)
(* trues sum to the weight of its positive observations, for scores in     *)
(* [0, 1] including 1.0.                                                   *)
(***************************************************************************)
C1_WeightConserved ==
    HistogramBuilt =>
        LET obs == Observations(data_frame)
        IN  /\ Total(ret.totals) = WeightOf(obs, AllOf(obs))
            /\ Total(ret.trues) = WeightOf(obs, PositivesOf(obs))
            /\ Total(ret.high_end_hist.totals) = WeightOf(obs, AllOf(obs))
            /\ Total(ret.high_end_hist.trues) = WeightOf(obs, PositivesOf(obs))

(***************************************************************************)
(* C3.  The builder assigns observations by the half-open rule: in both    *)
(* histograms totals[i] is the weight of exactly the observations with     *)
(* edges[i] <= score < edges[i+1], trues[i] the weight of the positive     *)
(* ones among them, and thresholds[i] = edges[i+1]; an observation on an   *)
(* interior edge is counted in the bin that starts there, and no           *)
(* observation is counted in two bins.                                     *)
(***************************************************************************)
C3_HalfOpenBins ==
    HistogramBuilt =>
        LET obs == Observations(data_frame)
        IN  /\ IsHistogramOf(ret, obs, UniformEdges)
            /\ IsHistogramOf(ret.high_end_hist, obs, TailEdges)
            /\ \A k \in DOMAIN obs :
                 /\ Cardinality({i \in Bins(UniformEdges) :
                                    InBin(UniformEdges, i, obs[k].score)}) <= 1
                 /\ Cardinality({i \in Bins(TailEdges) :
                                    InBin(TailEdges, i, obs[k].score)}) <= 1
            /\ Total(ret.totals) <= WeightOf(obs, AllOf(obs))
            /\ Total(ret.high_end_hist.totals) <= WeightOf(obs, AllOf(obs))

\* A single weighted observation with score 0.9, an interior edge of both
\* sequences: it is in uniform bin 91 = [0.90, 0.91) and tail bin 2 =
\* [0.9, 0.95), not in the bins that end at 0.9.
C3_Witness ==
    /\ HistogramBuilt
    /\ Len(data_frame.rows) = 1
    /\ data_frame.rows[1].pred_score = 9000000
    /\ data_frame.rows[1].weight > 0
    /\ ret.totals[91] = data_frame.rows[1].weight
    /\ ret.totals[90] = 0
    /\ ret.high_end_hist.totals[2] = data_frame.rows[1].weight
    /\ ret.high_end_hist.totals[1] = 0

(***************************************************************************)
(* C4.  End-to-end scenario: four unit-weight observations (0.05, true),   *)
(* (0.05, false), (0.95, true), (0.95, false) under the uniform edges.     *)
(***************************************************************************)
EndToEndBuilt ==
    HistogramBuilt /\ file_system[SCORES_FILE] = EndToEndTable

BinCovering(lo, hi) ==
    CHOOSE i \in Bins(UniformEdges) : UniformEdges[i] = lo /\ UniformEdges[i + 1] = hi

OnlyBins(h, a, b) ==
    /\ h.totals[a] = 2 /\ h.trues[a] = 1
    /\ h.totals[b] = 2 /\ h.trues[b] = 1
    /\ \A i \in DOMAIN h.totals \ {a, b} : h.totals[i] = 0 /\ h.trues[i] = 0

\* C4 as stated: the bin covering [0.0, 0.01) and the bin covering
\* [0.95, 0.96) hold totals 2 and trues 1, every other bin is zero.
C4_AsStated ==
    EndToEndBuilt =>
        OnlyBins(ret, BinCovering(0, 100000), BinCovering(9500000, 9600000))

\* C4 amended: the observations with score 0.05 are in the bin covering
\* [0.05, 0.06); that bin and the bin covering [0.95, 0.96) hold totals 2
\* and trues 1, every other bin is zero.
C4_EndToEnd ==
    EndToEndBuilt =>
        OnlyBins(ret, BinCovering(500000, 600000), BinCovering(9500000, 9600000))

C4_Witness == EndToEndBuilt /\ Len(data_frame.rows) = 4 /\ Len(ret.totals) = 100

\* A histogram of the shape the edges give it.
WellFormed(h, edges) ==
    /\ Len(h.thresholds) = Len(edges) - 1
    /\ Len(h.trues) = Len(h.thresholds)
    /\ Len(h.totals) = Len(h.thresholds)
    /\ \A i \in 1..(Len(h.thresholds) - 1) : h.thresholds[i] < h.thresholds[i + 1]
    /\ \A i \in 1..Len(h.thresholds) : h.trues[i] <= h.totals[i]

(***************************************************************************)
(* C2.  Every histogram a histogram request returns (built, read back from *)
(* the stored artifact, resampled, and the embedded tail histogram) is     *)
(* well formed: thresholds, trues and totals have length len(edges) - 1,   *)
(* thresholds is strictly increasing and trues[i] <= totals[i].            *)
(***************************************************************************)
C2_WellFormed ==
    call.op = "to_histogram_format" =>
        /\ WellFormed(ret, UniformEdges)
        /\ "high_end_hist" \in DOMAIN ret => WellFormed(ret["high_end_hist"], TailEdges)

\* A histogram read back from the stored artifact, with its tail, holding
\* both positive and negative weight.
C2_Witness ==
    /\ HistogramReadBack
    /\ "high_end_hist" \in DOMAIN ret
    /\ \E i \in DOMAIN ret.totals : ret.trues[i] > 0
    /\ \E i \in DOMAIN ret.totals : ret.trues[i] < ret.totals[i]
    /\ \E i \in DOMAIN ret.high_end_hist.totals : ret.high_end_hist.totals[i] > 0

(***************************************************************************)
(* The stored artifacts, as the properties see them.                       *)
(***************************************************************************)
HasTailField(text) == \E i \in DOMAIN text : text[i].k = "high_end_hist"

\* The stored histogram artifact exists and contains the tail field.
CurrentArtifact(fs) ==
    HISTOGRAM_FILE \in DOMAIN fs /\ HasTailField(fs[HISTOGRAM_FILE])

SameArtifact(fs1, fs2, path) ==
    /\ path \in DOMAIN fs1 <=> path \in DOMAIN fs2
    /\ path \in DOMAIN fs1 => fs1[path] = fs2[path]

\* The number of snapshots a stored bootstrap artifact holds.
SnapshotCount(text) == Cardinality({i \in DOMAIN text : text[i].k = "{"})

Reusable(fs, n) ==
    BOOTSTRAP_FILE \in DOMAIN fs /\ SnapshotCount(fs[BOOTSTRAP_FILE]) = n

\* The dataset obs resampled by one draw of len(obs) indices.
Resample(obs, draw) == [j \in DOMAIN obs |-> obs[draw[j] + 1]]

HistogramKeys == {"thresholds", "trues", "totals"}
MetricsKeys == {"thresholds", "score_distribution", "trues"}

IsMetricsOf(m, obs) ==
    /\ DOMAIN m = MetricsKeys
    /\ IsHistogramOf([thresholds |-> m.thresholds, trues |-> m.trues,
                      totals |-> m.score_distribution], obs, UniformEdges)

(***************************************************************************)
(* C5.  Cache hit: a non-resampling histogram request that finds a stored  *)
(* artifact with the tail field returns exactly that artifact, reads       *)
(* nothing but the artifact (the dataset is neither loaded nor read),      *)
(* writes nothing, and leaves the storage and the memoized dataset as      *)
(* they were.                                                              *)
(***************************************************************************)
C5_CacheHit ==
    [][(CurrentArtifact(file_system)
        /\ call'.op = "to_histogram_format" /\ ~call'.resample)
       => /\ json_dumps(ret') = file_system[HISTOGRAM_FILE]
          /\ io_log' = <<Read(HISTOGRAM_FILE)>>
          /\ file_system' = file_system
          /\ data_frame' = data_frame]_vars

\* A request answered from the artifact by a handle that never loaded its
\* dataset.
C5_Witness ==
    /\ HistogramReadBack
    /\ data_frame = NoneFrame
    /\ json_dumps(ret) = file_system[HISTOGRAM_FILE]
    /\ \E i \in DOMAIN ret.totals : ret.totals[i] > 0

(***************************************************************************)
(* C6.  Cache miss or legacy artifact: a non-resampling histogram request  *)
(* that finds no stored artifact, or one without the tail field, builds    *)
(* the combined histogram of the dataset and stores it; after every        *)
(* non-resampling request the stored artifact exists, contains the tail    *)
(* field and equals the returned histogram.                                *)
(***************************************************************************)
C6_Rebuild ==
    [][(call'.op = "to_histogram_format" /\ ~call'.resample)
       => /\ ~CurrentArtifact(file_system) =>
                /\ io_log'[Len(io_log')] = Write(HISTOGRAM_FILE)
                /\ data_frame' # NoneFrame
                /\ DOMAIN ret' = HistogramKeys \cup {"high_end_hist"}
                /\ IsHistogramOf(ret', Observations(data_frame'), UniformEdges)
                /\ IsHistogramOf(ret'.high_end_hist, Observations(data_frame'),
                                 TailEdges)
          /\ CurrentArtifact(file_system')
          /\ file_system'[HISTOGRAM_FILE] = json_dumps(ret')]_vars

\* A request that built and stored the histogram of a dataset with weight
\* in both histograms.
C6_Witness ==
    /\ HistogramBuilt
    /\ CurrentArtifact(file_system)
    /\ file_system[HISTOGRAM_FILE] = json_dumps(ret)
    /\ \E i \in DOMAIN ret.totals : ret.totals[i] > 0
    /\ \E i \in DOMAIN ret.high_end_hist.totals : ret.high_end_hist.totals[i] > 0

(***************************************************************************)
(* C7.  Idempotence: of two successive non-resampling histogram requests,  *)
(* the second returns the thresholds, trues and totals the first returned, *)
(* whatever the cache held before the first.                               *)
(***************************************************************************)
C7_Idempotent ==
    [][(HistogramReturned /\ call'.op = "to_histogram_format" /\ ~call'.resample)
       => /\ ret'.thresholds = ret.thresholds
          /\ ret'.trues = ret.trues
          /\ ret'.totals = ret.totals]_vars

\* A request answered from the artifact on a handle holding its dataset,
\* whose positive and total weights differ.
C7_Witness ==
    /\ HistogramReadBack
    /\ data_frame # NoneFrame
    /\ ret.trues # ret.totals
    /\ IsHistogramOf(ret, Observations(data_frame), UniformEdges)

(***************************************************************************)
(* C8.  A resampling histogram request bypasses the cache: it returns the  *)
(* uniform histogram of the resampled dataset whatever the stored artifact *)
(* holds, without an embedded tail histogram, and leaves the storage       *)
(* unchanged.                                                              *)
(***************************************************************************)
C8_ResampleBypassesCache ==
    [][(call'.op = "to_histogram_format" /\ call'.resample)
       => /\ file_system' = file_system
          /\ Write(HISTOGRAM_FILE) \notin Range(io_log')
          /\ DOMAIN ret' = HistogramKeys
          /\ Len(drawn') = 1
          /\ IsHistogramOf(ret', Resample(Observations(data_frame'), drawn'[1]),
                           UniformEdges)]_vars

\* A resampled histogram that differs from the current stored artifact.
C8_Witness ==
    /\ call.op = "to_histogram_format" /\ call.resample
    /\ CurrentArtifact(file_system)
    /\ "high_end_hist" \notin DOMAIN ret
    /\ json_loads(file_system[HISTOGRAM_FILE]).totals # ret.totals

\* What a request for n snapshots leaves: the stored snapshots reused, or
\* n fresh ones, one per draw, written over the artifact.
BootstrapOutcome(n, snapshots, fs, fs2, log, draws, df) ==
    IF Reusable(fs, n)
    THEN /\ draws = <<>>
         /\ Write(BOOTSTRAP_FILE) \notin Range(log)
         /\ fs2[BOOTSTRAP_FILE] = fs[BOOTSTRAP_FILE]
         /\ json_dumps_list(snapshots) = fs[BOOTSTRAP_FILE]
    ELSE /\ Len(draws) = n
         /\ Len(snapshots) = n
         /\ \A j \in 1..n :
               IsMetricsOf(snapshots[j], Resample(Observations(df), draws[j]))
         /\ log[Len(log)] = Write(BOOTSTRAP_FILE)
         /\ BOOTSTRAP_FILE \in DOMAIN fs2
         /\ fs2[BOOTSTRAP_FILE] = json_dumps_list(snapshots)

(***************************************************************************)
(* C9.  A bootstrap request for n samples reuses the stored bootstrap      *)
(* artifact iff it exists and holds exactly n snapshots: then it draws     *)
(* nothing, writes nothing and returns the stored snapshots; otherwise it  *)
(* computes n snapshots, one per resample, and overwrites the artifact     *)
(* with them.                                                              *)
(***************************************************************************)
C9_BootstrapReuse ==
    [][/\ call'.op = "to_bootstrap_format" =>
            /\ BootstrapOutcome(call'.n, ret', file_system, file_system',
                                io_log', drawn', data_frame')
            /\ Reusable(file_system, call'.n) =>
                  /\ io_log' = <<Read(BOOTSTRAP_FILE)>>
                  /\ file_system' = file_system
                  /\ data_frame' = data_frame
       /\ (call'.op = "get_metrics" /\ call'.n > 0) =>
            BootstrapOutcome(call'.n, Tail(ret'), file_system, file_system',
                             io_log', drawn', data_frame')]_vars

\* A request for n > 0 samples answered from the stored artifact.
C9_Witness ==
    /\ call.op = "to_bootstrap_format" /\ call.n > 0
    /\ io_log = <<Read(BOOTSTRAP_FILE)>>
    /\ drawn = <<>>
    /\ Len(ret) = call.n
    /\ json_dumps_list(ret) = file_system[BOOTSTRAP_FILE]

(***************************************************************************)
(* C10.  A metrics request with n = 0 returns the metrics object of the    *)
(* non-resampled histogram, not a sequence, and neither reads nor writes   *)
(* the bootstrap artifact, which is the same before and after.             *)
(***************************************************************************)
C10_MetricsWithoutBootstrap ==
    [][(call'.op = "get_metrics" /\ call'.n = 0)
       => /\ DOMAIN ret' = MetricsKeys
          /\ LET hist == json_loads(file_system'[HISTOGRAM_FILE])
             IN  /\ ret'.thresholds = hist.thresholds
                 /\ ret'.score_distribution = hist.totals
                 /\ ret'.trues = hist.trues
          /\ \A e \in Range(io_log') : e.path # BOOTSTRAP_FILE
          /\ drawn' = <<>>
          /\ SameArtifact(file_system, file_system', BOOTSTRAP_FILE)]_vars

\* A metrics request with n = 0 on a model whose bootstrap artifact holds
\* snapshots.
C10_Witness ==
    /\ call.op = "get_metrics" /\ call.n = 0
    /\ BOOTSTRAP_FILE \in DOMAIN file_system
    /\ SnapshotCount(file_system[BOOTSTRAP_FILE]) > 0
    /\ DOMAIN ret = MetricsKeys

(***************************************************************************)
(* C11.  For every n > 0 and whatever the stored bootstrap artifact held   *)
(* before (nothing, n snapshots, another number of snapshots), a bootstrap *)
(* request for n samples returns a sequence of exactly n metrics snapshots *)
(* and leaves a stored artifact that is an array of exactly n snapshots;   *)
(* a metrics request for n samples returns the base metrics followed by n  *)
(* snapshots.                                                              *)
(***************************************************************************)
C11_ExactlyNSnapshots ==
    /\ (call.op = "to_bootstrap_format" /\ call.n > 0) =>
          /\ Len(ret) = call.n
          /\ \A j \in 1..Len(ret) : DOMAIN ret[j] = MetricsKeys
          /\ Reusable(file_system, call.n)
          /\ Len(json_loads_list(file_system[BOOTSTRAP_FILE])) = call.n
    /\ (call.op = "get_metrics" /\ call.n > 0) =>
          /\ Len(ret) = call.n + 1
          /\ \A j \in 1..Len(ret) : DOMAIN ret[j] = MetricsKeys
          /\ Reusable(file_system, call.n)

\* A request for one sample that resampled and replaced the stored
\* artifact: the artifact now holds one snapshot, written by this request.
C11_Witness ==
    /\ call.op = "to_bootstrap_format" /\ call.n = 1
    /\ Len(drawn) = 1
    /\ io_log[Len(io_log)] = Write(BOOTSTRAP_FILE)
    /\ Len(ret) = 1
    /\ SnapshotCount(file_system[BOOTSTRAP_FILE]) = 1

\* The dataset a handle holds once it has loaded the stored scores table.
StoredDataset(fs) == check_alt_format(dropna(fs[SCORES_FILE]))

\* The 12 fixed tail thresholds.
FixedTailThresholds ==
    <<9000000, 9500000, 9900000, 9950000, 9975000, 9990000, 9995000,
      9999000, 9999500, 9999990, 9999999, One>>

(***************************************************************************)
(* C15.  The tail-only metrics view is available from every cache state    *)
(* (stored histogram absent, legacy or current, after any number of        *)
(* builds): get_top_metrics returns the metrics assembly of the embedded   *)
(* tail histogram of the dataset, whose thresholds are the 12 fixed tail   *)
(* thresholds in order and whose trues and score_distribution are the      *)
(* trues and totals of the stored tail histogram.                          *)
(***************************************************************************)
C15_TopMetrics ==
    call.op = "get_top_metrics" =>
        /\ DOMAIN ret = MetricsKeys
        /\ ret.thresholds = FixedTailThresholds
        /\ CurrentArtifact(file_system)
        /\ LET tail == json_loads(file_system[HISTOGRAM_FILE])["high_end_hist"]
           IN  /\ ret.trues = tail.trues
               /\ ret.score_distribution = tail.totals
        /\ IsHistogramOf([thresholds |-> ret.thresholds, trues |-> ret.trues,
                          totals |-> ret.score_distribution],
                         Observations(StoredDataset(file_system)), TailEdges)

\* A tail view answered from the current stored artifact, with weight in
\* the tail histogram at a bin the uniform histogram does not have.
C15_Witness ==
    /\ call.op = "get_top_metrics"
    /\ io_log = <<Read(HISTOGRAM_FILE)>>
    /\ Len(ret.thresholds) = 12
    /\ ret.score_distribution[2] > 0

(***************************************************************************)
(* C18.  Resampling never changes the original dataset: a resampling       *)
(* histogram request or a bootstrap request leaves the memoized dataset    *)
(* of the handle as it was (or as loading the stored table gives it), and  *)
(* every resample has len(dataset) rows, so with unit weights and every    *)
(* score inside a bin the totals of each resampled histogram sum to        *)
(* len(dataset).                                                           *)
(***************************************************************************)
UnitWeightsInsideBins(df) ==
    \A k \in 1..Len(df.rows) :
        /\ Observations(df)[k].weight = 1
        /\ \E i \in Bins(UniformEdges) : InBin(UniformEdges, i, df.rows[k].pred_score)

C18_ResampleLeavesDataset ==
    [][(\/ call'.op = "to_histogram_format" /\ call'.resample
        \/ call'.op = "to_bootstrap_format")
       => /\ data_frame # NoneFrame => data_frame' = data_frame
          /\ data_frame' # NoneFrame => data_frame' = StoredDataset(file_system)
          /\ \A j \in 1..Len(drawn') : Len(drawn'[j]) = Len(data_frame'.rows)
          /\ (drawn' # <<>> /\ UnitWeightsInsideBins(data_frame')) =>
                IF call'.resample
                THEN Total(ret'.totals) = Len(data_frame'.rows)
                ELSE \A j \in 1..Len(ret') :
                        Total(ret'[j].score_distribution) = Len(data_frame'.rows)]_vars

\* A bootstrap of two resamples of a two-row dataset that differ from it
\* and from each other, with the dataset still as stored.
C18_Witness ==
    /\ call.op = "to_bootstrap_format" /\ call.n = 2
    /\ Len(drawn) = 2
    /\ drawn[1] = <<0, 0>> /\ drawn[2] = <<1, 1>>
    /\ Len(data_frame.rows) = 2
    /\ data_frame.rows[1] # data_frame.rows[2]
    /\ data_frame = StoredDataset(file_system)
    /\ Total(ret[1].score_distribution) = 2

\* The source rows (score, trues, falses) of a stored aggregate table:
\* those that have all three values.
SourceRows(table) ==
    {k \in DOMAIN table.rows :
        \A c \in AggregateColumns : table.rows[k][c] # NaN}

\* The sum of one column over the source rows K.
ColumnSum(table, K, c) == SetSum([k \in DOMAIN table.rows |-> table.rows[k][c]], K)

\* h holds, in every bin, the trues and trues + falses of the source rows
\* whose score is in the bin, and nothing else.
IsAggregateHistogram(h, table, edges) ==
    \A i \in Bins(edges) :
        LET K == {k \in SourceRows(table) : InBin(edges, i, table.rows[k].score)}
        IN  /\ h.trues[i] = ColumnSum(table, K, "trues")
            /\ h.totals[i] = ColumnSum(table, K, "trues") + ColumnSum(table, K, "falses")

(***************************************************************************)
(* C14.  Aggregate input format: every source row (score s, trues t,       *)
(* falses f) contributes exactly t to trues and t + f to totals of the bin *)
(* containing s and nothing to any other bin, and the loaded dataset has   *)
(* exactly two observations per source row, a positive one of weight t and *)
(* a negative one of weight f, both with score s.                          *)
(***************************************************************************)
C14_AggregateExpansion ==
    (HistogramBuilt /\ "trues" \in file_system[SCORES_FILE].columns) =>
        LET table == file_system[SCORES_FILE]
            obs == Observations(data_frame)
        IN  /\ Len(data_frame.rows) = 2 * Cardinality(SourceRows(table))
            /\ \A k \in SourceRows(table) :
                  /\ \E j \in DOMAIN obs :
                        obs[j] = [score |-> table.rows[k].score, actual |-> TRUE,
                                  weight |-> table.rows[k].trues]
                  /\ \E j \in DOMAIN obs :
                        obs[j] = [score |-> table.rows[k].score, actual |-> FALSE,
                                  weight |-> table.rows[k].falses]
            /\ WeightOf(obs, PositivesOf(obs)) =
                  ColumnSum(table, SourceRows(table), "trues")
            /\ WeightOf(obs, AllOf(obs) \ PositivesOf(obs)) =
                  ColumnSum(table, SourceRows(table), "falses")
            /\ IsAggregateHistogram(ret, table, UniformEdges)
            /\ IsAggregateHistogram(ret.high_end_hist, table, TailEdges)

\* The row {score 0.5, trues 3, falses 7}: two observations, and 3 and 10
\* in the bin [0.50, 0.51).
C14_Witness ==
    /\ HistogramBuilt
    /\ file_system[SCORES_FILE] = AggregateTable
    /\ Len(data_frame.rows) = 2
    /\ ret.trues[51] = 3 /\ ret.totals[51] = 10
    /\ ret.thresholds[51] = 5100000

\* The dataset currently held for the model: the handle's table, or the
\* stored one when the handle has not loaded it.
CurrentDataset ==
    IF data_frame # NoneFrame THEN data_frame ELSE StoredDataset(file_system)

(***************************************************************************)
(* C17.  The histogram a non-resampling request returns is always the      *)
(* combined histogram of the dataset currently held for the model, also    *)
(* after save_data_frame(df) has replaced the dataset by one whose         *)
(* histogram differs.                                                      *)
(***************************************************************************)
C17_HistogramOfCurrentDataset ==
    HistogramReturned =>
        /\ IsHistogramOf(ret, Observations(CurrentDataset), UniformEdges)
        /\ IsHistogramOf(ret.high_end_hist, Observations(CurrentDataset), TailEdges)

(***************************************************************************)
(* Vocabulary of the loader properties.                                    *)
(***************************************************************************)
Benchmarked(fs) == SCORES_BM_FILE \in DOMAIN fs
IdsOf(table) == {table.rows[k].id : k \in DOMAIN table.rows}
UniqueIds(table) ==
    \A j, k \in DOMAIN table.rows : table.rows[j].id = table.rows[k].id => j = k
LabelsOf(fs) == fs[ACTUALS_FILE]
ScoresOf(fs) == fs[SCORES_BM_FILE]

\* The two validation errors, as the code raises them.
DuplicateIdentifierError ==
    [io |-> "raise", exception |-> "AssertionError",
     message |-> "id column is not unique"]
IdentifierMismatchError ==
    [io |-> "raise", exception |-> "AssertionError",
     message |-> "Indices for actuals and scores do not match"]

\* The last request ended in an exception / in this exception.
Failed == io_log # <<>> /\ io_log[Len(io_log)].io = "raise"
FailedWith(exc) == Failed /\ io_log[Len(io_log)] = exc /\ ret = exc

\* The last request read the labels, that is, it ran the benchmarked load.
LoadAttempted == \E k \in DOMAIN io_log : io_log[k] = Read(ACTUALS_FILE)

\* The ids whose label and score are both present.
CompleteIds(fs) ==
    {i \in IdsOf(LabelsOf(fs)) \cap IdsOf(ScoresOf(fs)) :
        \A k \in DOMAIN ScoresOf(fs).rows :
            ScoresOf(fs).rows[k].id = i => ScoresOf(fs).rows[k].pred_score # NaN}

\* df holds exactly one observation for each id of ids, which joins the
\* label of the id with the score of the id.
JoinsById(df, fs, ids) ==
    /\ Len(df.rows) = Cardinality(ids)
    /\ \A i \in ids : \E k \in DOMAIN df.rows :
          /\ df.rows[k].id = i
          /\ \E j \in DOMAIN LabelsOf(fs).rows :
                LabelsOf(fs).rows[j].id = i /\ LabelsOf(fs).rows[j].actual = df.rows[k].actual
          /\ \E j \in DOMAIN ScoresOf(fs).rows :
                /\ ScoresOf(fs).rows[j].id = i
                /\ ScoresOf(fs).rows[j].pred_score = df.rows[k].pred_score

\* C12 as stated: whenever the identifier sets differ the load fails with
\* IdentifierMismatchError, and with unique ids and equal sets it yields
\* one observation per id.
C12_AsStated ==
    LoadAttempted =>
        /\ IdsOf(LabelsOf(file_system)) # IdsOf(ScoresOf(file_system)) =>
              FailedWith(IdentifierMismatchError) /\ data_frame = NoneFrame
        /\ (/\ UniqueIds(LabelsOf(file_system)) /\ UniqueIds(ScoresOf(file_system))
            /\ IdsOf(LabelsOf(file_system)) = IdsOf(ScoresOf(file_system))) =>
              /\ ~Failed
              /\ JoinsById(data_frame, file_system, IdsOf(LabelsOf(file_system)))

(***************************************************************************)
(* C12, amended.  Benchmarked load: whenever both tables have unique ids   *)
(* and their identifier sets are not equal (an id in one and not in the    *)
(* other, in either direction), loading fails with IdentifierMismatchError *)
(* and produces no dataset; when both tables have unique ids and equal id  *)
(* sets, in any row order, loading succeeds and yields exactly one         *)
(* observation per id whose label and score are both present, joining     *)
(* that id's label with that id's score.                                   *)
(***************************************************************************)
C12_MismatchOrJoin ==
    (/\ LoadAttempted
     /\ UniqueIds(LabelsOf(file_system)) /\ UniqueIds(ScoresOf(file_system))) =>
        IF IdsOf(LabelsOf(file_system)) # IdsOf(ScoresOf(file_system))
        THEN FailedWith(IdentifierMismatchError) /\ data_frame = NoneFrame
        ELSE /\ ~Failed
             /\ JoinsById(data_frame, file_system, CompleteIds(file_system))

\* A load that joined labels stored as ids 2, 1 with scores stored as
\* ids 1, 2.
C12_Witness ==
    /\ LoadAttempted /\ ~Failed
    /\ index(LabelsOf(file_system)) = <<2, 1>>
    /\ index(ScoresOf(file_system)) = <<1, 2>>
    /\ Len(data_frame.rows) = 2
    /\ \E k \in 1..2 : data_frame.rows[k] = [id |-> 1, actual |-> TRUE, pred_score |-> 8000000]
    /\ \E k \in 1..2 : data_frame.rows[k] = [id |-> 2, actual |-> FALSE, pred_score |-> 2000000]

(***************************************************************************)
(* C13.  Benchmarked load: whenever the labels table or the scores table   *)
(* holds the same identifier in more than one row, loading fails with      *)
(* DuplicateIdentifierError, whether or not the two identifier sets match, *)
(* and produces no dataset.                                                *)
(***************************************************************************)
C13_DuplicateIds ==
    (/\ LoadAttempted
     /\ ~UniqueIds(LabelsOf(file_system)) \/ ~UniqueIds(ScoresOf(file_system))) =>
        FailedWith(DuplicateIdentifierError) /\ data_frame = NoneFrame

\* A load refused for a repeated id in the scores, the labels being unique
\* and the identifier sets equal.
C13_Witness ==
    /\ LoadAttempted
    /\ FailedWith(DuplicateIdentifierError)
    /\ UniqueIds(LabelsOf(file_system))
    /\ ~UniqueIds(ScoresOf(file_system))
    /\ IdsOf(LabelsOf(file_system)) = IdsOf(ScoresOf(file_system))

\* The files a load reads: the scores of a single-file model, the labels
\* and the scores of a benchmarked one.
SourceFiles == {SCORES_FILE, ACTUALS_FILE, SCORES_BM_FILE}
SourceReads(log) == {k \in DOMAIN log : log[k].io = "read_file" /\ log[k].path \in SourceFiles}

(***************************************************************************)
(* C16.  Loading is memoized and idempotent on a handle: once the handle   *)
(* holds a dataset, no further request on it (a direct load, a histogram,  *)
(* metrics or bootstrap request) reads a source file or changes the        *)
(* dataset, a direct load returns the dataset held, and the dataset of an  *)
(* aggregate table keeps the two observations per source row and the       *)
(* total weight of its single expansion.                                   *)
(***************************************************************************)
C16_LoadMemoized ==
    [][(data_frame # NoneFrame /\ call'.op # "__init__")
       => /\ data_frame' = data_frame
          /\ SourceReads(io_log') = {}
          /\ call'.op = "to_data_frame" => ret' = data_frame
          /\ (~Benchmarked(file_system) /\ "trues" \in file_system[SCORES_FILE].columns) =>
                LET table == file_system[SCORES_FILE]
                IN  /\ Len(data_frame'.rows) = 2 * Cardinality(SourceRows(table))
                    /\ Total([k \in DOMAIN data_frame'.rows |-> data_frame'.rows[k].weight]) =
                          ColumnSum(table, SourceRows(table), "trues")
                              + ColumnSum(table, SourceRows(table), "falses")]_vars

\* A second direct load on a handle that holds the expanded aggregate
\* table: no storage call, and the two observations of the one source row.
C16_Witness ==
    /\ call.op = "to_data_frame"
    /\ io_log = <<>>
    /\ SCORES_FILE \in DOMAIN file_system
    /\ file_system[SCORES_FILE] = AggregateTable
    /\ ret = data_frame
    /\ Len(data_frame.rows) = 2
    /\ data_frame.rows[1].weight + data_frame.rows[2].weight = 10

\* The stored tables of a benchmarked model fail the validation of the
\* identifiers.
InvalidIds(fs) ==
    /\ Benchmarked(fs)
    /\ \/ ~UniqueIds(LabelsOf(fs)) \/ ~UniqueIds(ScoresOf(fs))
       \/ IdsOf(LabelsOf(fs)) # IdsOf(ScoresOf(fs))

\* The request needs the dataset whatever the artifacts hold: every
\* request but the construction of a handle and a bootstrap of no
\* snapshots.
NeedsDataset(c) ==
    /\ c.op # "__init__"
    /\ ~(c.op = "to_bootstrap_format" /\ c.n = 0)

(***************************************************************************)
(* C19.  A failed benchmarked load leaves no partial result: a histogram,  *)
(* metrics or bootstrap request during which the validation of the         *)
(* identifiers fails yields only the error, leaves the dataset of the      *)
(* handle unset and creates or modifies no stored artifact; and every      *)
(* later request on the handle that needs the dataset runs the load and    *)
(* its validation again and fails in the same way.                         *)
(***************************************************************************)
C19_NoPartialLoad ==
    [][/\ (Benchmarked(file_system) /\ Failed') =>
             /\ InvalidIds(file_system)
             /\ LoadAttempted'
             /\ ret' = io_log'[Len(io_log')]
             /\ ret' \in {DuplicateIdentifierError, IdentifierMismatchError}
             /\ data_frame' = NoneFrame
             /\ file_system' = file_system
       /\ (InvalidIds(file_system) /\ NeedsDataset(call')) =>
             /\ data_frame = NoneFrame
             /\ Failed' /\ LoadAttempted'
             /\ SourceReads(io_log') # {}]_vars

\* A bootstrap request for two snapshots that failed on mismatched ids, on
\* a store where an earlier request for no snapshots left an empty
\* bootstrap set: the set is as it was and no histogram was stored.
C19_Witness ==
    /\ call.op = "to_bootstrap_format" /\ call.n = 2
    /\ FailedWith(IdentifierMismatchError)
    /\ data_frame = NoneFrame
    /\ HISTOGRAM_FILE \notin DOMAIN file_system
    /\ BOOTSTRAP_FILE \in DOMAIN file_system
    /\ json_loads_list(file_system[BOOTSTRAP_FILE]) = <<>>

(***************************************************************************)
(* Vocabulary of the properties of concurrent use.                         *)
(***************************************************************************)
\* Process p has returned from a request op.
Returned(ps, p, op) == ps[p].at = "done" /\ ps[p].call.op = op

\* m is a snapshot of the stored dataset: the metrics of one resample of
\* it with replacement.
IsSnapshot(m, fs) ==
    LET obs == Observations(StoredDataset(fs))
    IN  \E draw \in [1..Len(obs) -> 0..(Len(obs) - 1)] : IsMetricsOf(m, Resample(obs, draw))

\* h is a complete combined histogram of the stored dataset: the uniform
\* bins and the tail.
IsCompleteHistogram(h, fs) ==
    /\ DOMAIN h = HistogramKeys \cup {"high_end_hist"}
    /\ WellFormed(h, UniformEdges)
    /\ WellFormed(h.high_end_hist, TailEdges)
    /\ IsHistogramOf(h, Observations(StoredDataset(fs)), UniformEdges)
    /\ IsHistogramOf(h.high_end_hist, Observations(StoredDataset(fs)), TailEdges)

\* The text a writer of the artifact at path stores for the value it
\* returns.
ArtifactOf(path, value) ==
    IF path = HISTOGRAM_FILE THEN json_dumps(value) ELSE json_dumps_list(value)

\* path is created or its content replaced between fs and fs2.
Replaced(path, fs, fs2) ==
    path \in DOMAIN fs2 /\ (path \in DOMAIN fs => fs2[path] # fs[path])

\* fs holds whole artifacts: a histogram artifact that is the legacy one
\* or a complete combined histogram, a bootstrap artifact that is a list
\* of snapshots, each stored as its writer's json.dumps stores it.
WholeArtifacts(fs) ==
    /\ HISTOGRAM_FILE \in DOMAIN fs =>
          \/ fs[HISTOGRAM_FILE] = LegacyHistogram(fs[SCORES_FILE])
          \/ /\ IsCompleteHistogram(json_loads(fs[HISTOGRAM_FILE]), fs)
             /\ json_dumps(json_loads(fs[HISTOGRAM_FILE])) = fs[HISTOGRAM_FILE]
    /\ BOOTSTRAP_FILE \in DOMAIN fs =>
          LET stored == json_loads_list(fs[BOOTSTRAP_FILE])
          IN  /\ json_dumps_list(stored) = fs[BOOTSTRAP_FILE]
              /\ \A j \in DOMAIN stored : IsSnapshot(stored[j], fs)

(***************************************************************************)
(* C20.  Two processes with independent handles on the same model path,    *)
(* their steps interleaved at single atomic read_file / write_file calls,  *)
(* the last writer winning: every bootstrap request for n returns exactly  *)
(* n snapshots to its caller, whatever count the other process requests;   *)
(* every non-resampling histogram request returns a complete combined      *)
(* histogram with its tail; and every change of a stored artifact replaces *)
(* it by exactly the complete value the writing process returns, so that   *)
(* whenever both processes have returned every stored artifact is whole,   *)
(* never a mixture.                                                        *)
(***************************************************************************)
C20_ConcurrentUse ==
    [][\A p \in Procs :
         procs'[p] # procs[p] =>
            /\ Returned(procs', p, "to_bootstrap_format") =>
                  /\ Len(procs'[p].ret) = procs'[p].call.n
                  /\ \A j \in DOMAIN procs'[p].ret : IsSnapshot(procs'[p].ret[j], file_system)
            /\ Returned(procs', p, "to_histogram_format") =>
                  IsCompleteHistogram(procs'[p].ret, file_system)
            /\ DOMAIN file_system \subseteq DOMAIN file_system'
            /\ file_system'[SCORES_FILE] = file_system[SCORES_FILE]
            /\ \A path \in {HISTOGRAM_FILE, BOOTSTRAP_FILE} :
                  Replaced(path, file_system, file_system') =>
                     /\ procs'[p].at = "done"
                     /\ Write(path) \in Range(procs'[p].io_log)
                     /\ file_system'[path] = ArtifactOf(path, procs'[p].ret)
            /\ (\A q \in Procs : procs'[q].at = "done") => WholeArtifacts(file_system')]_vars

\* Both processes have returned from bootstrap requests that resampled and
\* wrote: the first asked for one snapshot and got one, the second asked
\* for two and got two, and the stored set is the second's, whole.
C20_Witness ==
    /\ procs # <<>>
    /\ Returned(procs, 1, "to_bootstrap_format") /\ procs[1].call.n = 1
    /\ Returned(procs, 2, "to_bootstrap_format") /\ procs[2].call.n = 2
    /\ Write(BOOTSTRAP_FILE) \in Range(procs[1].io_log)
    /\ Write(BOOTSTRAP_FILE) \in Range(procs[2].io_log)
    /\ Len(procs[1].ret) = 1 /\ Len(procs[2].ret) = 2
    /\ procs[1].ret[1] # procs[2].ret[1] /\ procs[1].ret[1] # procs[2].ret[2]
    /\ file_system[BOOTSTRAP_FILE] = json_dumps_list(procs[2].ret)

====
